---- MODULE Spec2Model ----
(***************************************************************************)
(* Model of src/src/main.ts: the diamond viewer's model loader (loadModel, *)
(* called at startup and from the model-selection control) and its orbit   *)
(* camera (mouse/wheel handlers writing targetSpherical, animate() moving  *)
(* spherical toward it).                                                   *)
(*                                                                         *)
(* Numbers.  Lengths and angles are fixed-point integers in hundredths     *)
(* (1 = 0.01 scene unit or 0.01 rad).  Pointer coordinates, wheel deltas   *)
(* and the viewport height are integers (pixels).  A result that is not a  *)
(* whole number of hundredths is rounded to the nearest one (ties to       *)
(* even), the way the program's floating-point results are rounded to the  *)
(* nearest representable number.                                           *)
(*                                                                         *)
(* Resources.  The n-th call of loadModel, when its load resolves, yields  *)
(* a fresh object (gltf.scene); it is named by n.  Null (0) is `null`.     *)
(***************************************************************************)
EXTENDS Integers, Sequences, FiniteSets, TLC

VARIABLES
    pc,                     \* position of init(): "hdr", "initload", "running", "failed"
    scene,                  \* loaded models that are children of `scene`
    diamond,                \* the module variable `diamond` (Null or a resource)
    loads,                  \* one record per call of loadModel, in call order
    errorLog,               \* console.error calls of loadModel, in order
    isDragging,             \* module variable isDragging
    previousMousePosition,  \* module variable previousMousePosition
    innerHeight,            \* window.innerHeight
    spherical,              \* module variable spherical (rendered pose)
    targetSpherical,        \* module variable targetSpherical
    lastCall,               \* the handler invoked last, with its arguments
    dragStart,              \* history: where and with what target the drag in
                            \* progress began, and whether the height has changed since
    budget                  \* handler invocations the model still allows

vars == <<pc, scene, diamond, loads, errorLog, isDragging, previousMousePosition,
          innerHeight, spherical, targetSpherical, lastCall, dragStart, budget>>

coordVars == <<scene, diamond, loads, errorLog>>
cameraVars == <<isDragging, previousMousePosition, spherical, targetSpherical, dragStart>>

----------------------------------------------------------------------------
(* Bounds of the model *)

MaxRequests == 2
MaxSteps == 3
MaxLoads == 4

ModelUrls == {"/models/diamond.glb", "/models/dflat.glb"}
ClientXs == {100, 150}
ClientYs == {100, 80, 100000}
WheelDeltas == {100, 0 - 500, 2000}
Heights == {628, 314}
Buttons == {0, 2}

----------------------------------------------------------------------------
(* Program constants, in the model's units *)

Null == 0
DefaultModel == "/models/diamond.glb"
dampingFactor == 10
rotationSpeed == 2
Pi == 314
minPolarAngle == 5
maxPolarAngle == Pi - minPolarAngle
zoomSpeed == 2
minRadius == 100
maxRadius == 2000
InitRadius == 539
InitTheta == 0
InitPhi == 119

----------------------------------------------------------------------------
(* Arithmetic *)

\* n / d rounded to the nearest integer, ties to even (d > 0)
RoundDiv(n, d) ==
    LET q == n \div d
        r == n % d
    IN  IF 2 * r < d THEN q
        ELSE IF 2 * r > d THEN q + 1
        ELSE IF q % 2 = 0 THEN q ELSE q + 1

Max(a, b) == IF a >= b THEN a ELSE b
Min(a, b) == IF a <= b THEN a ELSE b

\* lerp with the sign of t wrong: (1 + t) * x - t * y
lerp_away(x, y, t) == RoundDiv((100 + t) * x - t * y, 100)

\* THREE.MathUtils.lerp(x, y, t) = (1 - t) * x + t * y, t in hundredths
lerp(x, y, t) == RoundDiv((100 - t) * x + t * y, 100)

\* delta * rotationSpeed * (Math.PI / window.innerHeight)
Rotation(delta, height) == RoundDiv(delta * rotationSpeed * Pi, height)

Call(op, x, y) == [op |-> op, x |-> x, y |-> y, button |-> 0]

\* history of the drag in progress
NoDrag == [x |-> 0, theta |-> 0, sameHeight |-> FALSE, moves |-> 0]
DragFrom(clientX) ==
    [x |-> clientX, theta |-> targetSpherical.theta, sameHeight |-> TRUE, moves |-> 0]
Moved == IF isDragging THEN [dragStart EXCEPT !.moves = @ + 1] ELSE dragStart

----------------------------------------------------------------------------
Init ==
    /\ pc = "hdr"
    /\ scene = {}
    /\ diamond = Null
    /\ loads = <<>>
    /\ errorLog = <<>>
    /\ isDragging = FALSE
    /\ previousMousePosition = [x |-> 0, y |-> 0]
    /\ innerHeight \in Heights
    /\ spherical = [radius |-> InitRadius, theta |-> InitTheta, phi |-> InitPhi]
    /\ targetSpherical = spherical
    /\ lastCall = Call("main", 0, 0)
    /\ dragStart = NoDrag
    /\ budget = MaxSteps

----------------------------------------------------------------------------
(* loadModel *)

Awaiting == {i \in 1..Len(loads) : loads[i].state = "awaiting"}

\* loadModel(modelUrl) up to its `await`: drop the current model, start a load
loadModelCall(modelUrl) ==
    /\ scene' = IF diamond # Null THEN scene \ {diamond} ELSE scene
    /\ loads' = Append(loads, [url |-> modelUrl,
                               state |-> "awaiting",
                               inflightAtCall |-> Awaiting,
                               sceneBefore |-> scene,
                               diamondBefore |-> diamond])
    /\ UNCHANGED <<diamond, errorLog>>

\* init() resumes when loadModel's promise settles for the initial load
initResumes(i) == IF pc = "initload" /\ i = 1 THEN "running" ELSE pc

\* the model-selection control calls loadModel; its change event fires when
\* the selected option changes, so modelUrl differs from the last selection
requestSwap(modelUrl) ==
    /\ pc \in {"initload", "running"}
    /\ modelUrl # loads[Len(loads)].url
    /\ loadModelCall(modelUrl)
    /\ lastCall' = Call("loadModel", Len(loads) + 1, 0)
    /\ UNCHANGED <<pc, cameraVars, innerHeight, budget>>

\* loader.loadAsync resolves for call i: the try block runs to its end
loadResolved(i) ==
    /\ i \in Awaiting
    /\ diamond' = i
    /\ scene' = scene \cup {i}
    /\ loads' = [loads EXCEPT ![i].state = "ok"]
    /\ pc' = initResumes(i)
    /\ lastCall' = Call("resolved", i, 0)
    /\ UNCHANGED <<errorLog, cameraVars, innerHeight, budget>>

\* a catch block that swallows the error
loadRejected_silent(i) ==
    /\ i \in Awaiting
    /\ loads' = [loads EXCEPT ![i].state = "failed"]
    /\ pc' = initResumes(i)
    /\ lastCall' = Call("rejected", i, 0)
    /\ UNCHANGED <<scene, diamond, errorLog, cameraVars, innerHeight, budget>>

\* loadModel without try/catch: the rejection of the initial load propagates
\* to init(), which throws before it registers the handlers
loadRejected_propagates(i) ==
    /\ i \in Awaiting
    /\ errorLog' = Append(errorLog, i)
    /\ loads' = [loads EXCEPT ![i].state = "failed"]
    /\ pc' = IF pc = "initload" /\ i = 1 THEN "failed" ELSE pc
    /\ lastCall' = Call("rejected", i, 0)
    /\ UNCHANGED <<scene, diamond, cameraVars, innerHeight, budget>>

\* loader.loadAsync rejects for call i: the catch block logs the error
loadRejected(i) ==
    /\ i \in Awaiting
    /\ errorLog' = Append(errorLog, i)
    /\ loads' = [loads EXCEPT ![i].state = "failed"]
    /\ pc' = initResumes(i)
    /\ lastCall' = Call("rejected", i, 0)
    /\ UNCHANGED <<scene, diamond, cameraVars, innerHeight, budget>>

----------------------------------------------------------------------------
(* init *)

\* the environment map arrives: init() runs on to `await loadModel(...)`
hdrLoaded ==
    /\ pc = "hdr"
    /\ pc' = "initload"
    /\ loadModelCall(DefaultModel)
    /\ lastCall' = Call("init", 1, 0)
    /\ UNCHANGED <<cameraVars, innerHeight, budget>>

\* the environment map fails to load: init() throws, main() logs it
hdrFailed ==
    /\ pc = "hdr"
    /\ pc' = "failed"
    /\ lastCall' = Call("initFailed", 0, 0)
    /\ UNCHANGED <<coordVars, cameraVars, innerHeight, budget>>

----------------------------------------------------------------------------
(* camera *)

\* animate that also copies the rendered pose back into the target
animate_writesTarget ==
    /\ pc = "running"
    /\ spherical' = [theta |-> lerp(spherical.theta, targetSpherical.theta, dampingFactor),
                     phi |-> lerp(spherical.phi, targetSpherical.phi, dampingFactor),
                     radius |-> lerp(spherical.radius, targetSpherical.radius, dampingFactor)]
    /\ targetSpherical' = spherical'
    /\ lastCall' = Call("animate", 0, 0)
    /\ UNCHANGED <<pc, coordVars, isDragging, previousMousePosition, innerHeight, dragStart>>

animate ==
    /\ pc = "running"
    /\ spherical' = [theta |-> lerp(spherical.theta, targetSpherical.theta, dampingFactor),
                     phi |-> lerp(spherical.phi, targetSpherical.phi, dampingFactor),
                     radius |-> lerp(spherical.radius, targetSpherical.radius, dampingFactor)]
    /\ lastCall' = Call("animate", 0, 0)
    /\ UNCHANGED <<pc, coordVars, isDragging, previousMousePosition, targetSpherical,
                   innerHeight, dragStart>>

onWindowResize(height) ==
    /\ pc = "running"
    /\ innerHeight' = height
    /\ lastCall' = Call("resize", height, 0)
    /\ dragStart' = IF height = innerHeight THEN dragStart
                    ELSE [dragStart EXCEPT !.sameHeight = FALSE]
    /\ UNCHANGED <<pc, coordVars, isDragging, previousMousePosition, spherical,
                   targetSpherical>>

\* onMouseDown that does not record the pointer position
onMouseDown_noAnchor(button, clientX, clientY) ==
    /\ pc = "running"
    /\ IF button = 0
       THEN /\ isDragging' = TRUE
            /\ dragStart' = DragFrom(clientX)
            /\ UNCHANGED previousMousePosition
       ELSE UNCHANGED <<isDragging, previousMousePosition, dragStart>>
    /\ lastCall' = [Call("mousedown", clientX, clientY) EXCEPT !.button = button]
    /\ UNCHANGED <<pc, coordVars, spherical, targetSpherical, innerHeight>>

\* onMouseDown without the test of the button
onMouseDown_anyButton(button, clientX, clientY) ==
    /\ pc = "running"
    /\ isDragging' = TRUE
    /\ previousMousePosition' = [x |-> clientX, y |-> clientY]
    /\ dragStart' = DragFrom(clientX)
    /\ lastCall' = [Call("mousedown", clientX, clientY) EXCEPT !.button = button]
    /\ UNCHANGED <<pc, coordVars, spherical, targetSpherical, innerHeight>>

onMouseDown(button, clientX, clientY) ==
    /\ pc = "running"
    /\ IF button = 0
       THEN /\ isDragging' = TRUE
            /\ previousMousePosition' = [x |-> clientX, y |-> clientY]
            /\ dragStart' = DragFrom(clientX)
       ELSE UNCHANGED <<isDragging, previousMousePosition, dragStart>>
    /\ lastCall' = [Call("mousedown", clientX, clientY) EXCEPT !.button = button]
    /\ UNCHANGED <<pc, coordVars, spherical, targetSpherical, innerHeight>>

\* onMouseMove without the clamp of the polar angle
onMouseMove_noClamp(clientX, clientY) ==
    /\ pc = "running"
    /\ IF ~isDragging
       THEN UNCHANGED <<previousMousePosition, targetSpherical>>
       ELSE LET deltaX == clientX - previousMousePosition.x
                deltaY == clientY - previousMousePosition.y
                theta == targetSpherical.theta - Rotation(deltaX, innerHeight)
                phi == targetSpherical.phi - Rotation(deltaY, innerHeight)
            IN  /\ previousMousePosition' = [x |-> clientX, y |-> clientY]
                /\ targetSpherical' =
                       [targetSpherical EXCEPT !.theta = theta, !.phi = phi]
    /\ lastCall' = Call("mousemove", clientX, clientY)
    /\ dragStart' = Moved
    /\ UNCHANGED <<pc, coordVars, isDragging, spherical, innerHeight>>

\* onMouseMove without the early return
onMouseMove_noGuard(clientX, clientY) ==
    /\ pc = "running"
    /\ LET deltaX == clientX - previousMousePosition.x
           deltaY == clientY - previousMousePosition.y
           theta == targetSpherical.theta - Rotation(deltaX, innerHeight)
           phi == targetSpherical.phi - Rotation(deltaY, innerHeight)
       IN  /\ previousMousePosition' = [x |-> clientX, y |-> clientY]
           /\ targetSpherical' =
                  [targetSpherical EXCEPT
                      !.theta = theta,
                      !.phi = Max(minPolarAngle, Min(maxPolarAngle, phi))]
    /\ lastCall' = Call("mousemove", clientX, clientY)
    /\ dragStart' = Moved
    /\ UNCHANGED <<pc, coordVars, isDragging, spherical, innerHeight>>

\* onMouseMove that leaves the anchor where the drag began
onMouseMove_staleAnchor(clientX, clientY) ==
    /\ pc = "running"
    /\ IF ~isDragging
       THEN UNCHANGED targetSpherical
       ELSE LET deltaX == clientX - previousMousePosition.x
                deltaY == clientY - previousMousePosition.y
                theta == targetSpherical.theta - Rotation(deltaX, innerHeight)
                phi == targetSpherical.phi - Rotation(deltaY, innerHeight)
            IN  targetSpherical' =
                    [targetSpherical EXCEPT
                        !.theta = theta,
                        !.phi = Max(minPolarAngle, Min(maxPolarAngle, phi))]
    /\ lastCall' = Call("mousemove", clientX, clientY)
    /\ dragStart' = Moved
    /\ UNCHANGED <<pc, coordVars, isDragging, previousMousePosition, spherical, innerHeight>>

onMouseMove(clientX, clientY) ==
    /\ pc = "running"
    /\ IF ~isDragging
       THEN UNCHANGED <<previousMousePosition, targetSpherical>>
       ELSE LET deltaX == clientX - previousMousePosition.x
                deltaY == clientY - previousMousePosition.y
                theta == targetSpherical.theta - Rotation(deltaX, innerHeight)
                phi == targetSpherical.phi - Rotation(deltaY, innerHeight)
            IN  /\ previousMousePosition' = [x |-> clientX, y |-> clientY]
                /\ targetSpherical' =
                       [targetSpherical EXCEPT
                           !.theta = theta,
                           !.phi = Max(minPolarAngle, Min(maxPolarAngle, phi))]
    /\ lastCall' = Call("mousemove", clientX, clientY)
    /\ dragStart' = Moved
    /\ UNCHANGED <<pc, coordVars, isDragging, spherical, innerHeight>>

onMouseUp ==
    /\ pc = "running"
    /\ isDragging' = FALSE
    /\ lastCall' = Call("mouseup", 0, 0)
    /\ dragStart' = NoDrag
    /\ UNCHANGED <<pc, coordVars, previousMousePosition, spherical, targetSpherical,
                   innerHeight>>

\* onMouseWheel with the zoom direction reversed
onMouseWheel_reversed(deltaY) ==
    /\ pc = "running"
    /\ LET radius == targetSpherical.radius - deltaY * zoomSpeed
       IN  targetSpherical' =
               [targetSpherical EXCEPT !.radius = Max(minRadius, Min(maxRadius, radius))]
    /\ lastCall' = Call("wheel", deltaY, 0)
    /\ UNCHANGED <<pc, coordVars, isDragging, previousMousePosition, spherical,
                   innerHeight, dragStart>>

onMouseWheel(deltaY) ==
    /\ pc = "running"
    /\ LET radius == targetSpherical.radius + deltaY * zoomSpeed
       IN  targetSpherical' =
               [targetSpherical EXCEPT !.radius = Max(minRadius, Min(maxRadius, radius))]
    /\ lastCall' = Call("wheel", deltaY, 0)
    /\ UNCHANGED <<pc, coordVars, isDragging, previousMousePosition, spherical,
                   innerHeight, dragStart>>

----------------------------------------------------------------------------
(* The program: every handler may run whenever it is registered.  The model *)
(* allows MaxRequests calls of loadModel and MaxSteps calls of the camera's *)
(* handlers.                                                                *)

Spend == budget > 0 /\ budget' = budget - 1

Next ==
    \/ hdrLoaded
    \/ hdrFailed
    \/ \E url \in ModelUrls : Len(loads) < MaxRequests /\ requestSwap(url)
    \/ \E i \in 1..MaxRequests : loadResolved(i)
    \/ \E i \in 1..MaxRequests : loadRejected(i)
    \/ Spend /\ animate
    \/ \E h \in Heights : Spend /\ onWindowResize(h)
    \/ \E b \in Buttons, x \in ClientXs, y \in ClientYs : Spend /\ onMouseDown(b, x, y)
    \/ \E x \in ClientXs, y \in ClientYs : Spend /\ onMouseMove(x, y)
    \/ Spend /\ onMouseUp
    \/ \E d \in WheelDeltas : Spend /\ onMouseWheel(d)

Spec == Init /\ [][Next]_vars

----------------------------------------------------------------------------
(* Input stops and the frames go on: the handlers run as in Spec until the  *)
(* first frame is rendered, and from then on only animate() runs, as often  *)
(* as the animation loop calls it; the loop never stops calling it.         *)

settle == animate /\ budget' = 0

NextSettle ==
    \/ hdrLoaded
    \/ hdrFailed
    \/ loadResolved(1)
    \/ loadRejected(1)
    \/ settle
    \/ \E h \in Heights : Spend /\ onWindowResize(h)
    \/ \E b \in Buttons, x \in ClientXs, y \in ClientYs : Spend /\ onMouseDown(b, x, y)
    \/ \E x \in ClientXs, y \in ClientYs : Spend /\ onMouseMove(x, y)
    \/ Spend /\ onMouseUp
    \/ \E d \in WheelDeltas : Spend /\ onMouseWheel(d)

SettleSpec == Init /\ [][NextSettle]_vars /\ WF_vars(settle)

----------------------------------------------------------------------------
(* The loader alone: startup and up to MaxLoads calls of loadModel, every   *)
(* load that was started resolving or rejecting in the end.                 *)

loadSettles == \E i \in 1..MaxLoads : loadResolved(i) \/ loadRejected(i)

NextLoads ==
    \/ hdrLoaded
    \/ hdrFailed
    \/ \E url \in ModelUrls : Len(loads) < MaxLoads /\ requestSwap(url)
    \/ \E i \in 1..MaxLoads : loadResolved(i)
    \/ \E i \in 1..MaxLoads : loadRejected(i)

LoadSpec == Init /\ [][NextLoads]_vars /\ WF_vars(loadSettles)

----------------------------------------------------------------------------
(* Properties of loadModel *)

\* call j was made while call j - 1, and nothing else, was awaiting its load
Overlapped(j) == j >= 2 /\ loads[j].inflightAtCall = {j - 1}

\* C1: two calls of loadModel, the second made before the first load
\* resolved, both loads successful: once both have completed (and no later
\* call was made) the scene holds the second call's model and nothing else,
\* and `diamond` refers to it, whichever load resolved first.
C1_LatestRequestWins ==
    \A j \in 1..Len(loads) :
        ( /\ j = Len(loads)
          /\ Overlapped(j)
          /\ loads[j - 1].state = "ok"
          /\ loads[j].state = "ok"
          /\ Awaiting = {} )
        => (scene = {j} /\ diamond = j)

\* C2: at most one loaded model is a child of the scene, in every state.
C2_AtMostOneAttached == Cardinality(scene) <= 1

\* C3: a call of loadModel made while no load was in flight, not followed by
\* another call, whose load failed: the scene and `diamond` are as they were
\* just before the call.
C3_FailureKeepsScene ==
    \A i \in 1..Len(loads) :
        ( /\ i = Len(loads)
          /\ loads[i].inflightAtCall = {}
          /\ loads[i].state = "failed" )
        => (scene = loads[i].sceneBefore /\ diamond = loads[i].diamondBefore)

\* C4: the scene's models and `diamond` change only in the step in which the
\* load of the latest call resolves, and that step replaces the old model by
\* the new one; a call of loadModel and a failed load leave them alone.
C4_OnlyFreshCompletionSwaps ==
    [][ (scene' # scene \/ diamond' # diamond)
        => ( /\ lastCall'.op = "resolved"
             /\ lastCall'.x = Len(loads)
             /\ scene' = (scene \ {diamond}) \cup {lastCall'.x}
             /\ diamond' = lastCall'.x ) ]_vars

\* C10: while any load is in flight, the first one included, animate() and
\* the mouse and wheel handlers are registered and can run.
C10_HandlersLiveDuringLoad ==
    Awaiting # {} =>
        /\ ENABLED animate
        /\ ENABLED onMouseUp
        /\ \A x \in ClientXs, y \in ClientYs : ENABLED onMouseDown(0, x, y)
        /\ \A x \in ClientXs, y \in ClientYs : ENABLED onMouseMove(x, y)
        /\ \A d \in WheelDeltas : ENABLED onMouseWheel(d)

----------------------------------------------------------------------------
(* Properties of the camera *)

Components == {"radius", "theta", "phi"}
Dist(a, b) == IF a >= b THEN a - b ELSE b - a
Clamp(v, lo, hi) == IF v < lo THEN lo ELSE IF v > hi THEN hi ELSE v

InRange(s) ==
    /\ minPolarAngle <= s.phi /\ s.phi <= maxPolarAngle
    /\ minRadius <= s.radius /\ s.radius <= maxRadius

\* C5: the polar angle and the radius of both the target and the rendered
\* pose stay within [minPolarAngle, maxPolarAngle] and [minRadius, maxRadius]
\* whatever the drags, wheel turns and frames, however large their deltas.
C5_PoseInRange == InRange(targetSpherical) /\ InRange(spherical)

\* a drag by a huge vertical delta and a wheel turn past the far limit were
\* both clamped
C5_Witness ==
    /\ lastCall.op \in {"mousemove", "wheel"}
    /\ targetSpherical.phi \in {minPolarAngle, maxPolarAngle}
    /\ targetSpherical.phi # InitPhi
    /\ targetSpherical.radius = maxRadius

\* C6: a mouse move that arrives while no drag is active changes neither the
\* target pose nor the drag anchor.
C6_MoveWhileInactive ==
    [][ (lastCall'.op = "mousemove" /\ ~isDragging)
        => ( /\ targetSpherical' = targetSpherical
             /\ previousMousePosition' = previousMousePosition ) ]_vars

\* a move was handled while no drag was active
C6_Witness ==
    /\ lastCall.op = "mousemove"
    /\ ~isDragging
    /\ lastCall.x # previousMousePosition.x

\* C7: press at (x0, y0), move to (x1, y1), release: the move changes
\* target theta by -(x1 - x0) * S * pi / height and target phi by
\* -(y1 - y0) * S * pi / height with S = 2, phi then clamped; the radius is
\* unchanged, and the release changes nothing of the target.
C7_DragGesture ==
    [][ /\ ( /\ lastCall.op = "mousedown" /\ lastCall.button = 0
             /\ lastCall'.op = "mousemove" )
           => /\ (targetSpherical.theta - targetSpherical'.theta) * innerHeight
                    = (lastCall'.x - lastCall.x) * 2 * Pi
              /\ targetSpherical'.phi =
                    Clamp(targetSpherical.phi
                             - ((lastCall'.y - lastCall.y) * 2 * Pi) \div innerHeight,
                          minPolarAngle, maxPolarAngle)
              /\ targetSpherical'.radius = targetSpherical.radius
        /\ (lastCall'.op = "mouseup") => targetSpherical' = targetSpherical ]_vars

\* the gesture (100,100) -> (150,80) -> release at height 628: theta moved by
\* -50 * 2 * 3.14 / 628 = -0.50 and phi by +20 * 2 * 3.14 / 628 = +0.20
C7_Witness ==
    /\ lastCall.op = "mouseup"
    /\ ~isDragging
    /\ innerHeight = 628
    /\ previousMousePosition = [x |-> 150, y |-> 80]
    /\ targetSpherical = [radius |-> InitRadius, theta |-> InitTheta - 50,
                          phi |-> InitPhi + 20]

\* C8: a wheel event sets the target radius to
\* clamp(radius + deltaY * 0.02, minRadius, maxRadius); a wheel turn of -500
\* right after one of +100 ends at minRadius when radius - 500 * 0.02 would
\* fall below minRadius.
C8_WheelZoom ==
    [][ /\ (lastCall'.op = "wheel")
           => targetSpherical'.radius =
                 Clamp(targetSpherical.radius + lastCall'.x * 2, minRadius, maxRadius)
        /\ ( /\ lastCall = Call("wheel", 100, 0)
             /\ lastCall' = Call("wheel", 0 - 500, 0)
             /\ targetSpherical.radius - 500 * 2 < minRadius )
           => targetSpherical'.radius = minRadius ]_vars

\* wheel +100 then -500 from the initial radius 5.39 ended at minRadius
C8_Witness ==
    /\ lastCall = Call("wheel", 0 - 500, 0)
    /\ budget = MaxSteps - 2
    /\ targetSpherical.radius = minRadius
    /\ targetSpherical.radius < InitRadius

\* the distance below which a frame no longer moves a component: 10% of it
\* rounds to nothing
LerpEps == 50 \div dampingFactor

Settled == \A c \in Components : Dist(spherical[c], targetSpherical[c]) <= LerpEps

\* C9: in a step that leaves the target alone, no component of the rendered
\* pose moves away from its target or past it; and when input has stopped,
\* the frames bring every component to within LerpEps of its target, where
\* it stays.
C9_FramesConverge ==
    /\ [][ targetSpherical' = targetSpherical
           => \A c \in Components :
                 /\ Dist(spherical'[c], targetSpherical[c])
                       <= Dist(spherical[c], targetSpherical[c])
                 /\ spherical[c] <= targetSpherical[c]
                       => spherical'[c] <= targetSpherical[c]
                 /\ spherical[c] >= targetSpherical[c]
                       => spherical'[c] >= targetSpherical[c] ]_vars
    /\ <>[]Settled

\* frames have brought a pose that was far from its target next to it
C9_Witness ==
    /\ lastCall.op = "animate"
    /\ targetSpherical.radius = maxRadius
    /\ targetSpherical.theta # InitTheta
    /\ targetSpherical.phi # InitPhi
    /\ spherical # targetSpherical
    /\ Settled

----------------------------------------------------------------------------
(* Further properties of loadModel *)

Succeeded == {i \in 1..Len(loads) : loads[i].state = "ok"}
Failed == {i \in 1..Len(loads) : loads[i].state = "failed"}
Reports(i) == Cardinality({k \in 1..Len(errorLog) : errorLog[k] = i})

\* C12: `diamond` never goes back to the model of an earlier call: a
\* completion never replaces it by the result of a call made before the call
\* whose result it holds.
C12_LiveNeverGoesBack == [][diamond' >= diamond]_vars

\* C13: the model loaded by a call that has been superseded by a later call
\* while its load was in flight is never added to the scene and never
\* becomes `diamond`.
C13_StaleDiscarded ==
    [][ \A i \in Awaiting :
            i < Len(loads) => (i \notin scene' /\ diamond' # i) ]_vars

\* C14: when every started load settles, the loader ends with no load in
\* flight, and whenever no load is in flight and the latest call's load
\* succeeded, its model is the one in the scene and `diamond` refers to it.
C14_ReturnsToIdle ==
    /\ <>[](Awaiting = {})
    /\ []( ( /\ Awaiting = {}
             /\ Len(loads) > 0
             /\ loads[Len(loads)].state = "ok" )
           => (scene = {Len(loads)} /\ diamond = Len(loads)) )

\* C15: a call made after an earlier call's load had failed, whose own load
\* succeeds: once nothing is in flight and no later call was made, its model
\* is the only one in the scene and `diamond` refers to it.
C15_SwapAfterFailure ==
    \A i, j \in 1..Len(loads) :
        ( /\ i < j
          /\ loads[i].state = "failed"
          /\ i \notin loads[j].inflightAtCall
          /\ j = Len(loads)
          /\ loads[j].state = "ok"
          /\ Awaiting = {} )
        => (scene = {j} /\ diamond = j)

\* C16: the error log holds exactly one report for every call whose load
\* rejected and none for any other call, whether its load succeeded, was
\* superseded or is still in flight.
C16_OneReportPerFailure ==
    /\ \A i \in 1..Len(loads) : Reports(i) = IF i \in Failed THEN 1 ELSE 0
    /\ Len(errorLog) = Cardinality(Failed)

\* a load failed and was reported, a superseded call's load and a later
\* call's load both succeeded
C16_Witness ==
    /\ Failed # {}
    /\ \E j \in Succeeded : j < Len(loads) /\ loads[j + 1].inflightAtCall # {}
    /\ Len(loads) \in Succeeded
    /\ Len(errorLog) = Cardinality(Failed)

\* C19: whenever no load is in flight, `diamond` is null or a model in the
\* scene, and every loaded model in the scene is the one `diamond` refers to.
C19_ReferenceMatchesScene ==
    Awaiting = {} =>
        /\ diamond = Null \/ diamond \in scene
        /\ scene \subseteq {diamond}

----------------------------------------------------------------------------
(* Further properties of the camera *)

\* C11: a press of the primary button while a drag is active changes neither
\* the anchor, nor the flag, nor the target.
C11_RepeatedPressIgnored ==
    [][ (lastCall'.op = "mousedown" /\ lastCall'.button = 0 /\ isDragging)
        => ( /\ isDragging'
             /\ previousMousePosition' = previousMousePosition
             /\ targetSpherical' = targetSpherical ) ]_vars

\* C17: isDragging starts false; it becomes true only by a press of the
\* primary button, and a press of another button changes nothing; it becomes
\* false only by onMouseUp (release or pointer leaving the canvas), which
\* always leaves it false and changes nothing else; a move that follows
\* onMouseUp does not change the target.
C17_DragLifecycle ==
    /\ ~isDragging
    /\ [][ /\ (~isDragging /\ isDragging')
              => (lastCall'.op = "mousedown" /\ lastCall'.button = 0)
           /\ (lastCall'.op = "mousedown" /\ lastCall'.button # 0)
              => UNCHANGED <<isDragging, previousMousePosition, targetSpherical>>
           /\ (isDragging /\ ~isDragging') => lastCall'.op = "mouseup"
           /\ (lastCall'.op = "mouseup")
              => ( /\ ~isDragging'
                   /\ UNCHANGED <<previousMousePosition, targetSpherical, spherical>> )
           /\ (lastCall.op = "mouseup" /\ lastCall'.op = "mousemove")
              => targetSpherical' = targetSpherical ]_vars

\* a drag was made and ended, and a move after it left the target where the
\* drag had put it
C17_Witness ==
    /\ lastCall.op = "mousemove"
    /\ ~isDragging
    /\ previousMousePosition.x \in ClientXs
    /\ lastCall.x # previousMousePosition.x

\* C18: a wheel event changes only the target radius; a move only the
\* target's theta and phi and the anchor; a press or release only the drag
\* state; a frame only the rendered pose; none of them changes the scene,
\* `diamond`, the loads or the position of init().
C18_HandlersWriteOwnState ==
    [][ /\ (lastCall'.op = "wheel")
           => /\ UNCHANGED <<pc, coordVars, isDragging, previousMousePosition,
                             spherical, innerHeight>>
              /\ targetSpherical'.theta = targetSpherical.theta
              /\ targetSpherical'.phi = targetSpherical.phi
        /\ (lastCall'.op = "mousemove")
           => /\ UNCHANGED <<pc, coordVars, isDragging, spherical, innerHeight>>
              /\ targetSpherical'.radius = targetSpherical.radius
        /\ (lastCall'.op \in {"mousedown", "mouseup"})
           => UNCHANGED <<pc, coordVars, spherical, targetSpherical, innerHeight>>
        /\ (lastCall'.op = "animate")
           => UNCHANGED <<pc, coordVars, isDragging, previousMousePosition,
                          targetSpherical, innerHeight>> ]_vars

\* while a load was in flight, a drag moved the target and a frame moved the
\* rendered pose after it
C18_Witness ==
    /\ lastCall.op = "animate"
    /\ Awaiting # {}
    /\ isDragging
    /\ spherical # [radius |-> InitRadius, theta |-> InitTheta, phi |-> InitPhi]
    /\ spherical # targetSpherical

\* C20: during a drag that began at x0, with the viewport height unchanged
\* since, the target theta right after a move to x is its value at the press
\* minus (x - x0) * S * pi / height, whatever moves came in between.
C20_DragTelescopes ==
    (isDragging /\ dragStart.sameHeight /\ lastCall.op = "mousemove")
    => (targetSpherical.theta - dragStart.theta) * innerHeight
          = 0 - (lastCall.x - dragStart.x) * 2 * Pi

\* a drag of two moves, out and back to where it began
C20_Witness ==
    /\ isDragging
    /\ dragStart.sameHeight
    /\ dragStart.moves >= 2
    /\ lastCall.op = "mousemove"
    /\ lastCall.x = dragStart.x
    /\ targetSpherical.theta = dragStart.theta

----------------------------------------------------------------------------
(* Startup *)

\* the listeners are registered and the animation loop is running
Interactive ==
    /\ ENABLED animate
    /\ ENABLED onMouseUp
    /\ \E x \in ClientXs, y \in ClientYs : ENABLED onMouseDown(0, x, y)
    /\ \E x \in ClientXs, y \in ClientYs : ENABLED onMouseMove(x, y)
    /\ \E d \in WheelDeltas : ENABLED onMouseWheel(d)

\* C21: once loadModel has been called, init() never fails; and once the
\* initial load has settled, by success or by failure, init() has run to its
\* end: the mouse and wheel handlers are registered and animate() is running.
C21_InteractiveAfterInitialLoad ==
    /\ Len(loads) >= 1 => pc # "failed"
    /\ (Len(loads) >= 1 /\ 1 \notin Awaiting) => (pc = "running" /\ Interactive)

\* the initial load failed, and a wheel event and a frame were handled after
C21_Witness ==
    /\ Len(loads) >= 1
    /\ loads[1].state = "failed"
    /\ errorLog # <<>>
    /\ diamond = Null
    /\ lastCall.op = "animate"
    /\ targetSpherical.radius # InitRadius
    /\ spherical.radius # InitRadius

====
